---- MODULE Spec2Model ----
(***************************************************************************)
(* Executive Sales Hub (src/app.py): a Streamlit script.  Every UI         *)
(* interaction reruns the whole script: load_data() (memoised by           *)
(* st.cache_data), the sidebar widgets, the boolean filter mask, the       *)
(* empty-subset guard, the KPIs and the grouped aggregations.              *)
(*                                                                         *)
(* Time is counted in ticks, TicksPerDay ticks to a calendar day and       *)
(* DaysPerMonth days to a calendar month.  A pandas Timestamp is a tick    *)
(* count, a datetime.date is a day count.  A float64 is modelled as a      *)
(* binary floating-point number with a MantBits-bit significand and        *)
(* round-to-nearest-even addition (Round, Fadd); its values are written    *)
(* as the naturals they denote.  The Customer_Type column, which the       *)
(* script never reads, and the charts plotly aggregates itself (donut,     *)
(* heatmap, sunburst) are left out.                                        *)
(***************************************************************************)
EXTENDS Integers, Sequences, FiniteSets, TLC

\* ---------------------------------------------------------------- bounds
NRows == 3          \* rows generated (n_samples, 2500 in the source)
SpanDays == 1       \* days between start_date and end_date (365 in the source)
TicksPerDay == 2    \* clock ticks in a calendar day
DaysPerMonth == 2   \* days in a calendar month
MaxTicks == 1       \* clock ticks the model lets pass
MantBits == 3       \* significand bits of a float (53 in float64)

\* ------------------------------------------------------ program constants
TopN == 10          \* .tail(10)

\* Python's str ordering on the group keys (what groupby's sort=True uses).
LexOrder == <<"Desk Lamp", "Ergo Chair", "France", "USA">>

\* The clock at process start: the last tick of day SpanDays + 1.
Now0 == (SpanDays + 1) * TicksPerDay + (TicksPerDay - 1)

\* ------------------------------------------------------------- arithmetic
RECURSIVE Pow2(_)
Pow2(n) == IF n = 0 THEN 1 ELSE 2 * Pow2(n - 1)

\* Binary exponent of x above the significand: least e with x < 2^(MantBits+e).
RECURSIVE Exponent(_)
Exponent(x) == IF x < Pow2(MantBits) THEN 0 ELSE 1 + Exponent(x \div 2)

\* Round-to-nearest, ties-to-even, to a MantBits-bit significand.
Round(x) ==
    LET e == Exponent(x)
        q == x \div Pow2(e)
        r == x % Pow2(e)
        half == Pow2(e) \div 2
    IN  IF e = 0 THEN x
        ELSE IF r > half \/ (r = half /\ q % 2 = 1) THEN (q + 1) * Pow2(e)
        ELSE q * Pow2(e)

\* float64 addition.
Fadd(a, b) == Round(a + b)

\* int64 addition (no overflow: 2500 rows of at most 4999).
Iadd(a, b) == a + b

\* Series.sum() of a float column: left-to-right accumulation.
RECURSIVE FSum(_)
FSum(s) == IF s = <<>> THEN 0 ELSE Fadd(FSum(SubSeq(s, 1, Len(s) - 1)), s[Len(s)])

\* Series.sum() of an int column.
RECURSIVE ISum(_)
ISum(s) == IF s = <<>> THEN 0 ELSE Iadd(ISum(SubSeq(s, 1, Len(s) - 1)), s[Len(s)])

\* Series.mean(): the sum over the count; NaN over no rows.
Mean(s) == IF Len(s) = 0 THEN [nan |-> TRUE, num |-> 0, den |-> 0]
           ELSE [nan |-> FALSE, num |-> ISum(s), den |-> Len(s)]

\* ------------------------------------------------------------- the frame
Column(frame, f) == [i \in 1..Len(frame) |-> frame[i][f]]

\* Series.dt.date: the calendar day of a Timestamp.
DtDate(ts) == ts \div TicksPerDay

\* Series.dt.to_period('M').dt.start_time: the first instant of the month.
MonthStart(ts) == (DtDate(ts) \div DaysPerMonth) * DaysPerMonth * TicksPerDay

\* DataFrame.sort_values('Date'): insertion of each row after the rows
\* that are not later (every order of equal dates is some draw's result).
RECURSIVE SortByDate(_)
SortByDate(rows) ==
    IF rows = <<>> THEN <<>>
    ELSE LET x == rows[Len(rows)]
             s == SortByDate(SubSeq(rows, 1, Len(rows) - 1))
             k == Cardinality({i \in 1..Len(s) : s[i].Date <= x.Date})
         IN  SubSeq(s, 1, k) \o <<x>> \o SubSeq(s, k + 1, Len(s))

\* load_data()'s body: the seeded draws, dated back from today, sorted.
Generate(today, d) ==
    SortByDate([i \in 1..Len(d) |->
        [Date |-> today - d[i].off * TicksPerDay,
         Category |-> d[i].Category,
         Product |-> d[i].Product,
         Region |-> d[i].Region,
         Sales |-> d[i].Sales,
         Profit |-> d[i].Profit]])

\* A mutant of CacheLookup: the memoisation is missing.
CacheLookupUncached(store, today, d) == Generate(today, d)

\* @st.cache_data: the stored frame on a hit, the body's result on a miss.
CacheLookup(store, today, d) ==
    IF store = <<>> THEN Generate(today, d) ELSE store[1]

\* Series.unique() as a set.
Unique(frame, f) == {frame[i][f] : i \in 1..Len(frame)}

\* ---------------------------------------------------------------- filter
\* A mutant of Isin: an empty selection selects everything.
IsinEmptyIsAll(v, selected) == selected = {} \/ v \in selected

\* Series.isin(selected)
Isin(v, selected) == v \in selected

\* A mutant of Mask: the Timestamp is compared with the end date's midnight.
MaskRawTimestamp(frame, dr, cats, regs) ==
    [i \in 1..Len(frame) |->
        /\ frame[i].Date >= dr[1] * TicksPerDay
        /\ frame[i].Date <= dr[2] * TicksPerDay
        /\ Isin(frame[i].Category, cats)
        /\ Isin(frame[i].Region, regs)]

\* mask = (date >= date_range[0]) & (date <= date_range[1]) & isin & isin
Mask(frame, dr, cats, regs) ==
    [i \in 1..Len(frame) |->
        /\ DtDate(frame[i].Date) >= dr[1]
        /\ DtDate(frame[i].Date) <= dr[2]
        /\ Isin(frame[i].Category, cats)
        /\ Isin(frame[i].Region, regs)]

\* A mutant of BoolIndex: the selected rows come out in reverse.
RECURSIVE BoolIndexReversed(_, _)
BoolIndexReversed(frame, m) ==
    IF frame = <<>> THEN <<>>
    ELSE LET n == Len(frame)
             rest == BoolIndexReversed(SubSeq(frame, 1, n - 1), SubSeq(m, 1, n - 1))
         IN  IF m[n] THEN <<frame[n]>> \o rest ELSE rest

\* df[mask]: a new frame of the rows whose mask entry is True, in order.
RECURSIVE BoolIndex(_, _)
BoolIndex(frame, m) ==
    IF frame = <<>> THEN <<>>
    ELSE LET n == Len(frame)
             rest == BoolIndex(SubSeq(frame, 1, n - 1), SubSeq(m, 1, n - 1))
         IN  IF m[n] THEN Append(rest, frame[n]) ELSE rest

\* A mutant of Empty: the guard never fires.
EmptyNever(frame) == FALSE

\* DataFrame.empty
Empty(frame) == Len(frame) = 0

\* ----------------------------------------------------------- aggregation
\* The distinct keys of a string column in ascending lexical order.
SortedKeys(frame, f) == SelectSeq(LexOrder, LAMBDA k : k \in Unique(frame, f))

\* The distinct values of an integer column in ascending order.
RECURSIVE SortedInts(_)
SortedInts(S) ==
    IF S = {} THEN <<>>
    ELSE LET m == CHOOSE x \in S : \A y \in S : x <= y
         IN  <<m>> \o SortedInts(S \ {m})

GroupRows(frame, f, k) == SelectSeq(frame, LAMBDA r : r[f] = k)

\* A mutant of GroupSalesSum: each group keeps its first row's Sales only.
GroupSalesFirst(frame, f, keys) ==
    [j \in 1..Len(keys) |->
        [key |-> keys[j], val |-> GroupRows(frame, f, keys[j])[1].Sales]]

\* groupby(f)['Sales'].sum(): one entry per key, keys ascending.
GroupSalesSum(frame, f, keys) ==
    [j \in 1..Len(keys) |->
        [key |-> keys[j], val |-> ISum(Column(GroupRows(frame, f, keys[j]), "Sales"))]]

\* groupby(f)['Profit'].sum()
GroupProfitSum(frame, f, keys) ==
    [j \in 1..Len(keys) |->
        [key |-> keys[j], val |-> FSum(Column(GroupRows(frame, f, keys[j]), "Profit"))]]

\* Series.sort_values(ascending=True) with the default kind: ascending by
\* value; the order of equal values is the build's (kept by a stable
\* small-array insertion sort, not kept by a vectorised quicksort).
RECURSIVE SortValues(_, _)
SortValues(s, stable) ==
    IF s = <<>> THEN <<>>
    ELSE LET x == s[Len(s)]
             t == SortValues(SubSeq(s, 1, Len(s) - 1), stable)
             k == Cardinality({i \in 1..Len(t) :
                     t[i].val < x.val \/ (stable /\ t[i].val = x.val)})
         IN  SubSeq(t, 1, k) \o <<x>> \o SubSeq(t, k + 1, Len(t))

\* Series.tail(n)
Tail_(s, n) == IF Len(s) <= n THEN s ELSE SubSeq(s, Len(s) - n + 1, Len(s))

\* groupby('Product')['Profit'].sum().sort_values(ascending=True).tail(10)
TopProducts(frame, stable) ==
    Tail_(SortValues(GroupProfitSum(frame, "Product", SortedKeys(frame, "Product")),
                     stable), TopN)

\* The rows of a frame with the 'Month' column added.
WithMonth(frame) ==
    [i \in 1..Len(frame) |->
        [Date |-> frame[i].Date,
         Category |-> frame[i].Category,
         Product |-> frame[i].Product,
         Region |-> frame[i].Region,
         Sales |-> frame[i].Sales,
         Profit |-> frame[i].Profit,
         Month |-> MonthStart(frame[i].Date)]]

\* A mutant of SetMonth: df_filtered is a view, the column lands in df too.
SetMonthThroughView(source, filtered) ==
    [df |-> WithMonth(source), df_filtered |-> WithMonth(filtered)]

\* df_filtered['Month'] = ...: df_filtered is df[mask], a frame of its own.
SetMonth(source, filtered) ==
    [df |-> source, df_filtered |-> WithMonth(filtered)]

\* ------------------------------------------------------------ the script
NoMean == [nan |-> FALSE, num |-> 0, den |-> 0]

\* One run of the script from line 146 on, as the values it leaves behind.
\* outcome: "IndexError" (date_range[1] on a 1-tuple), "no_data" (st.error
\* and st.stop()), "shown" (the run reached the end).
Script(source, dr, cats, regs, stable) ==
    IF Len(dr) < 2
    THEN [outcome |-> "IndexError", df |-> source, df_filtered |-> <<>>,
          total_sales |-> 0, total_profit |-> 0, avg_ticket |-> NoMean,
          nb_trans |-> 0, map_data |-> <<>>, top_products |-> <<>>,
          trend_data |-> <<>>]
    ELSE LET filtered == BoolIndex(source, Mask(source, dr, cats, regs))
         IN  IF Empty(filtered)
             THEN [outcome |-> "no_data", df |-> source, df_filtered |-> filtered,
                   total_sales |-> 0, total_profit |-> 0, avg_ticket |-> NoMean,
                   nb_trans |-> 0, map_data |-> <<>>, top_products |-> <<>>,
                   trend_data |-> <<>>]
             ELSE LET after == SetMonth(source, filtered)
                  IN  [outcome |-> "shown",
                       df |-> after.df,
                       df_filtered |-> after.df_filtered,
                       total_sales |-> ISum(Column(filtered, "Sales")),
                       total_profit |-> FSum(Column(filtered, "Profit")),
                       avg_ticket |-> Mean(Column(filtered, "Sales")),
                       nb_trans |-> Len(filtered),
                       map_data |-> GroupSalesSum(filtered, "Region",
                                        SortedKeys(filtered, "Region")),
                       top_products |-> TopProducts(filtered, stable),
                       trend_data |-> GroupSalesSum(after.df_filtered, "Month",
                                        SortedInts(Unique(after.df_filtered, "Month")))]

\* ----------------------------------------------------------------- state
VARIABLES
    now,              \* the clock (datetime.today())
    draws,            \* what the generator seeded with 42 draws
    stable_ties,      \* whether the build's sort keeps equal values in order
    cache,            \* st.cache_data's store for load_data: <<>> or <<frame>>
    date_range,       \* the date_input widget's value
    selected_cat,     \* the Category multiselect's value
    selected_region,  \* the Region multiselect's value
    outcome, df, df_filtered, total_sales, total_profit, avg_ticket,
    nb_trans, map_data, top_products, trend_data

widgets == <<date_range, selected_cat, selected_region>>
shown == <<outcome, df, df_filtered, total_sales, total_profit, avg_ticket,
           nb_trans, map_data, top_products, trend_data>>
vars == <<now, draws, stable_ties, cache, widgets, shown>>

\* The days the date picker offers.
PickerDays == (DtDate(Now0) - SpanDays) .. DtDate(Now0 + MaxTicks)

\* What st.date_input can return for a range: (start,) or (start, end).
DateSelections ==
    {<<a>> : a \in PickerDays} \cup {<<a, b>> : a \in PickerDays, b \in PickerDays}

\* The run of the script with the widgets at dr, cats, regs.
Run(dr, cats, regs) ==
    \E source \in {CacheLookup(cache, now, draws)} :
    \E r \in {Script(source, dr, cats, regs, stable_ties)} :
        /\ cache' = <<source>>
        /\ date_range' = dr
        /\ selected_cat' = cats
        /\ selected_region' = regs
        /\ outcome' = r.outcome
        /\ df' = r.df
        /\ df_filtered' = r.df_filtered
        /\ total_sales' = r.total_sales
        /\ total_profit' = r.total_profit
        /\ avg_ticket' = r.avg_ticket
        /\ nb_trans' = r.nb_trans
        /\ map_data' = r.map_data
        /\ top_products' = r.top_products
        /\ trend_data' = r.trend_data
        /\ UNCHANGED <<now, draws, stable_ties>>

\* ------------------------------------------------------- the draws' ranges
CategorySeq == <<"Electronics", "Furniture">>
RegionSeq == <<"France", "USA">>
ProductSeq == <<"Desk Lamp", "Ergo Chair">>
ProfitSeq == <<1, 4, 5>>

\* Sales * uniform(0.1, 0.45): the drawn Profit is a quarter of the Sales.
DrawnRow(o, c, p, r, profit) ==
    [off |-> o, Category |-> c, Product |-> p, Region |-> r,
     Sales |-> 4 * profit, Profit |-> profit]

\* Rows that differ in day, Category and Region.
FilterRow(k) ==
    DrawnRow(k % (SpanDays + 1),
             CategorySeq[((k \div (SpanDays + 1)) % 2) + 1],
             ProductSeq[1],
             RegionSeq[((k \div (2 * (SpanDays + 1))) % 2) + 1],
             ProfitSeq[2])
NFilterRows == 4 * (SpanDays + 1)

\* Rows that differ in Product, Profit (and Sales) and in day with Region.
AggRow(k) ==
    DrawnRow((k % 2) * SpanDays,
             CategorySeq[1],
             ProductSeq[((k \div 2) % 2) + 1],
             RegionSeq[(k % 2) + 1],
             ProfitSeq[(k \div 4) + 1])
NAggRows == 4 * Len(ProfitSeq)

\* Rows of a session: two kinds of sale (equal Profit), on the first or last day.
SessionRow(k) ==
    DrawnRow((k % 2) * SpanDays,
             CategorySeq[(k \div 2) + 1],
             ProductSeq[(k \div 2) + 1],
             RegionSeq[(k \div 2) + 1],
             ProfitSeq[2])
NSessionRows == 2 * Len(CategorySeq)

\* The draws over a family of rows, one sequence per multiset of rows
\* (load_data sorts them by Date).
DrawsOver(rows) ==
    {[i \in 1..NRows |-> rows[f[i]]] :
        f \in {g \in [1..NRows -> 1..Len(rows)] :
                  \A i \in 1..(NRows - 1) : g[i] <= g[i + 1]}}

InitCommon ==
    /\ now = Now0
    /\ cache = <<>>
    /\ date_range = <<>>
    /\ selected_cat = {}
    /\ selected_region = {}
    /\ outcome = "none"
    /\ df = <<>>
    /\ df_filtered = <<>>
    /\ total_sales = 0
    /\ total_profit = 0
    /\ avg_ticket = NoMean
    /\ nb_trans = 0
    /\ map_data = <<>>
    /\ top_products = <<>>
    /\ trend_data = <<>>

\* The process has started and no session has run the script yet.
Init ==
    /\ draws \in DrawsOver([k \in 1..NSessionRows |-> SessionRow(k - 1)])
    /\ stable_ties \in BOOLEAN
    /\ InitCommon

\* Datasets for the filter: a single Product, so no equal sums to order.
InitFilter ==
    /\ draws \in DrawsOver([k \in 1..NFilterRows |-> FilterRow(k - 1)])
    /\ stable_ties = TRUE
    /\ InitCommon

\* Datasets for the aggregations.
InitAgg ==
    /\ draws \in DrawsOver([k \in 1..NAggRows |-> AggRow(k - 1)])
    /\ stable_ties \in BOOLEAN
    /\ InitCommon

\* The clock advances.
Tick ==
    /\ now < Now0 + MaxTicks
    /\ now' = now + 1
    /\ UNCHANGED <<draws, stable_ties, cache, widgets, shown>>

\* A browser session opens: the widgets take their defaults and the script runs.
OpenSession ==
    \E source \in {CacheLookup(cache, now, draws)} :
        Run(<<DtDate(source[1].Date), DtDate(source[Len(source)].Date)>>,
            Unique(source, "Category"), Unique(source, "Region"))

\* The user picks dates; the script reruns.
SetDateRange ==
    /\ outcome # "none"
    /\ \E dr \in DateSelections : dr # date_range /\ Run(dr, selected_cat, selected_region)

\* The user changes the Category selection; the script reruns.
SetCategory ==
    /\ outcome # "none"
    /\ \E cats \in SUBSET Unique(df, "Category") :
          cats # selected_cat /\ Run(date_range, cats, selected_region)

\* The user changes the Region selection; the script reruns.
SetRegion ==
    /\ outcome # "none"
    /\ \E regs \in SUBSET Unique(df, "Region") :
          regs # selected_region /\ Run(date_range, selected_cat, regs)

\* The user reruns the script with the widgets as they are.
Rerun ==
    /\ outcome # "none"
    /\ Run(date_range, selected_cat, selected_region)

Next == Tick \/ OpenSession \/ SetDateRange \/ SetCategory \/ SetRegion \/ Rerun

Spec == Init /\ [][Next]_vars

\* One run of the script on any Filter Specification the widgets can hold.
Apply ==
    /\ outcome = "none"
    /\ \E source \in {CacheLookup(cache, now, draws)} :
       \E dr \in DateSelections :
       \E cats \in SUBSET Unique(source, "Category") :
       \E regs \in SUBSET Unique(source, "Region") :
          Run(dr, cats, regs)

SpecFilter == InitFilter /\ [][Apply]_vars

SpecAgg == InitAgg /\ [][Apply]_vars

\* ------------------------------------------------------------ properties
\* The run built the mask and indexed df with it.
MaskBuilt == outcome \in {"no_data", "shown"}

\* A row of df_filtered without the derived 'Month' column.
BaseRow(r) ==
    [Date |-> r.Date, Category |-> r.Category, Product |-> r.Product,
     Region |-> r.Region, Sales |-> r.Sales, Profit |-> r.Profit]

BaseRows(frame) == [i \in 1..Len(frame) |-> BaseRow(frame[i])]

\* The four predicates of the Filter Specification on a record.
Matches(r) ==
    /\ DtDate(r.Date) >= date_range[1]
    /\ DtDate(r.Date) <= date_range[2]
    /\ r.Category \in selected_cat
    /\ r.Region \in selected_region

\* s is t with some of its entries left out.
RECURSIVE IsSubsequence(_, _)
IsSubsequence(s, t) ==
    IF s = <<>> THEN TRUE
    ELSE IF t = <<>> THEN FALSE
    ELSE IF s[1] = t[1] THEN IsSubsequence(Tail(s), Tail(t))
    ELSE IsSubsequence(s, Tail(t))

Abs(x) == IF x < 0 THEN -x ELSE x

\* C1: the filtered subset holds a record of the Dataset if and only if the
\* record's date is within [start, end], both ends included, its Category is
\* selected and its Region is selected; it holds as many records as match.
C1_FilterIffAllPredicates ==
    MaskBuilt =>
        /\ \A i \in 1..Len(df) :
              (\E j \in 1..Len(df_filtered) : BaseRow(df_filtered[j]) = df[i])
                 <=> Matches(df[i])
        /\ Len(df_filtered) = Cardinality({i \in 1..Len(df) : Matches(df[i])})

\* C1's case: records on the start day and on the end day are kept while
\* another record is left out.
C1_Witness ==
    /\ outcome = "shown"
    /\ Len(df_filtered) < Len(df)
    /\ date_range[1] < date_range[2]
    /\ \E j \in 1..Len(df_filtered) : DtDate(df_filtered[j].Date) = date_range[1]
    /\ \E j \in 1..Len(df_filtered) : DtDate(df_filtered[j].Date) = date_range[2]

\* C2: the Dataset is sorted by date ascending, and the filtered subset is
\* the Dataset with some records left out: every record of it is one of the
\* Dataset's, none more often, in the Dataset's relative order.
C2_SubsetInOrder ==
    MaskBuilt =>
        /\ \A i \in 1..Len(df) : \A j \in i..Len(df) : df[i].Date <= df[j].Date
        /\ IsSubsequence(BaseRows(df_filtered), df)

\* C2's case: two different records are kept and one is left out.
C2_Witness ==
    /\ outcome = "shown"
    /\ Len(df_filtered) = 2
    /\ Len(df) > 2
    /\ BaseRow(df_filtered[1]) # BaseRow(df_filtered[2])

\* C3: with no Category selected or no Region selected the filtered subset
\* is empty, whatever the dates and the other selection.
C3_EmptySelectionEmptyResult ==
    (MaskBuilt /\ (selected_cat = {} \/ selected_region = {})) =>
        (df_filtered = <<>> /\ outcome = "no_data")

\* C3's case: no Category is selected while the dates and the Regions
\* selected cover a record.
C3_Witness ==
    /\ MaskBuilt
    /\ selected_cat = {}
    /\ \E i \in 1..Len(df) :
          /\ DtDate(df[i].Date) >= date_range[1]
          /\ DtDate(df[i].Date) <= date_range[2]
          /\ df[i].Region \in selected_region

\* C4: a run whose filtered subset is empty ends in the 'no data' state with
\* no KPI and no aggregation computed; the KPIs, the mean among them, are
\* computed over a non-empty subset only, so the mean is never NaN.
C4_EmptyStopsBeforeKpis ==
    /\ (MaskBuilt /\ Len(df_filtered) = 0) =>
          /\ outcome = "no_data"
          /\ avg_ticket = NoMean
          /\ nb_trans = 0
          /\ map_data = <<>> /\ top_products = <<>> /\ trend_data = <<>>
    /\ outcome = "shown" =>
          /\ Len(df_filtered) > 0
          /\ ~avg_ticket.nan
          /\ avg_ticket.den = Len(df_filtered)
          /\ nb_trans = Len(df_filtered)

\* C4's case: the Categories and Regions are selected and the dates pick no record.
C4_Witness ==
    /\ outcome = "no_data"
    /\ selected_cat # {}
    /\ selected_region # {}
    /\ Len(date_range) = 2
    /\ date_range[1] <= date_range[2]

\* C5 as stated: the per-Region and the per-Month Sales sums add up to the
\* Total Revenue and the per-Product Profit sums add up to the Net Profit
\* (the subset has at most TopN products, so the cut leaves none out).
C5_GroupSumsEqualTotals ==
    outcome = "shown" =>
        /\ ISum(Column(map_data, "val")) = total_sales
        /\ ISum(Column(trend_data, "val")) = total_sales
        /\ FSum(Column(top_products, "val")) = total_profit

\* x is the exact sum S of n floats up to the rounding of n - 1 additions:
\* |x - S| <= g * S with g = (n - 1) * u / (1 - (n - 1) * u), u = 2^-MantBits.
WithinRounding(x, S, n) ==
    Abs(x - S) * (Pow2(MantBits) - (n - 1)) <= (n - 1) * S

\* The exact sum of a column.
RECURSIVE ExactSum(_)
ExactSum(s) == IF s = <<>> THEN 0 ELSE s[1] + ExactSum(Tail(s))

\* C5 (amended): the per-Region and the per-Month Sales sums add up exactly
\* to the Total Revenue; the per-Product Profit sums and the Net Profit are
\* both the exact Profit sum up to floating-point rounding.
C5_SalesExactProfitRounded ==
    outcome = "shown" =>
        /\ ISum(Column(map_data, "val")) = total_sales
        /\ ISum(Column(trend_data, "val")) = total_sales
        /\ Len(top_products) = Cardinality(Unique(df_filtered, "Product"))
        /\ WithinRounding(total_profit,
                          ExactSum(Column(df_filtered, "Profit")), Len(df_filtered))
        /\ WithinRounding(FSum(Column(top_products, "val")),
                          ExactSum(Column(df_filtered, "Profit")), Len(df_filtered))

\* C5's case: several Regions, Months and Products, and Profit sums that
\* round differently grouped and ungrouped.
C5_Witness ==
    /\ outcome = "shown"
    /\ Len(map_data) > 1
    /\ Len(trend_data) > 1
    /\ Len(top_products) > 1
    /\ FSum(Column(top_products, "val")) # total_profit

\* a comes before b in Python's str ordering.
LexLess(a, b) ==
    \E i \in 1..Len(LexOrder) : \E j \in (i + 1)..Len(LexOrder) :
        LexOrder[i] = a /\ LexOrder[j] = b

\* C6 as stated: read from the largest bar down (the last entry of
\* top_products first), the products are min(10, distinct products) many,
\* descending by summed Profit, equal sums in ascending order of name.
C6_TopProductsTieByName ==
    outcome = "shown" =>
        /\ Len(top_products) =
              (IF Cardinality(Unique(df_filtered, "Product")) < TopN
               THEN Cardinality(Unique(df_filtered, "Product")) ELSE TopN)
        /\ \A i \in 1..(Len(top_products) - 1) :
              \/ top_products[i + 1].val > top_products[i].val
              \/ /\ top_products[i + 1].val = top_products[i].val
                 /\ LexLess(top_products[i + 1].key, top_products[i].key)

\* C7 as stated: a date range with start > end makes the filter fail; the
\* run neither yields a filtered subset nor computes an aggregation.
C7_InvertedRangeFails ==
    (outcome # "none" /\ Len(date_range) = 2 /\ date_range[1] > date_range[2])
        => ~MaskBuilt

\* C8: once constructed the source Dataset (the memoised frame) never
\* changes, and the df every run ends with is that Dataset: records, columns
\* and order.
C8_SourceNeverChanges ==
    /\ [](outcome # "none" => cache = <<df>>)
    /\ [][cache # <<>> => cache' = cache]_vars

\* C8's case: a run added the 'Month' column to a filtered subset that holds
\* every record of the Dataset.
C8_Witness ==
    /\ outcome = "shown"
    /\ Len(df_filtered) = Len(df)
    /\ \A j \in 1..Len(df_filtered) : "Month" \in DOMAIN df_filtered[j]
    /\ \A i \in 1..Len(df) : "Month" \notin DOMAIN df[i]

\* C9: what a run leaves is what the script yields on the source Dataset and
\* the current Filter Specification, and a run on the Filter Specification
\* of the run before it leaves what that run left.
C9_ResultFromSourceAndFilterOnly ==
    /\ [](outcome # "none" =>
            /\ cache # <<>>
            /\ shown = LET r == Script(cache[1], date_range, selected_cat,
                                       selected_region, stable_ties)
                       IN  <<r.outcome, r.df, r.df_filtered, r.total_sales,
                             r.total_profit, r.avg_ticket, r.nb_trans, r.map_data,
                             r.top_products, r.trend_data>>)
    /\ [][(outcome # "none" /\ outcome' # "none" /\ widgets' = widgets)
             => shown' = shown]_vars

\* C9's case: the clock has moved on since the Dataset was constructed, the
\* widgets have left their defaults, and a run shows results.
C9_Witness ==
    /\ outcome = "shown"
    /\ now > Now0
    /\ df = Generate(Now0, draws)
    /\ df # Generate(now, draws)
    /\ selected_cat # Unique(df, "Category")
    /\ date_range # <<DtDate(df[1].Date), DtDate(df[Len(df)].Date)>>

\* C10 as stated: every run ends in the 'no data' state or with the KPIs and
\* charts shown.
C10_EveryRunHandled ==
    outcome # "none" => outcome \in {"no_data", "shown"}

====
